---- MODULE Spec2Model ----
\* Attack-graph path enumeration (src/src/graph.py): the AttackGraph object,
\* its adjacency index, neighbors() and the bounded depth-first search of
\* enumerate_paths()/_dfs(), sequentially, step by step and as two
\* interleaved calls; the path metrics and utility (src/src/models.py), the
\* readers of edge attributes (src/src/graph_viz.py) and the ranking that
\* main (src/src/cli.py) asks of planner.rank_paths.
EXTENDS Integers, Sequences, FiniteSets, TLC

\* ---------------------------------------------------------------- bounds
MaxEdges == 4        \* longest edge list supplied to the constructor
MaxDepth == 3        \* largest max_depth argument tried (smallest is -1)
MaxConcEdges == 2    \* longest edge list in the two-caller specification

\* ---------------------------------------------------------------- inputs
Nodes == {"A", "B", "C", "D"}

AllKeys == {"src", "dst", "technique", "p", "impact", "detect", "time"}

\* The edge records graph descriptions are drawn from.  An edge is a dict:
\* keys is the set of keys it carries, and a field whose key is not in keys
\* holds a placeholder that is never read.  Numeric attributes are in
\* hundredths (p = 50 is 0.5).
EdgePool ==
    << [keys |-> AllKeys,
        src |-> "A", dst |-> "B", technique |-> "t1", p |-> 50, impact |-> 100, detect |-> 20, time |-> 100],
       [keys |-> AllKeys,
        src |-> "B", dst |-> "D", technique |-> "t2", p |-> 80, impact |-> 200, detect |-> 10, time |-> 100],
       [keys |-> AllKeys \ {"detect"},
        src |-> "A", dst |-> "C", technique |-> "t3", p |-> 150, impact |-> 100, detect |-> 0, time |-> 200],
       [keys |-> {"src", "dst", "technique", "detect"},
        src |-> "C", dst |-> "D", technique |-> "t4", p |-> 0, impact |-> 0, detect |-> 30, time |-> 0],
       [keys |-> AllKeys,
        src |-> "B", dst |-> "A", technique |-> "t5", p |-> 0, impact |-> 100, detect |-> 30, time |-> 100],
       [keys |-> AllKeys,
        src |-> "B", dst |-> "B", technique |-> "t6", p |-> 50, impact |-> 100, detect |-> 30, time |-> 100],
       [keys |-> AllKeys,
        src |-> "B", dst |-> "D", technique |-> "t7", p |-> 90, impact |-> 300, detect |-> 90, time |-> 100],
       [keys |-> AllKeys \ {"src"},
        src |-> "", dst |-> "B", technique |-> "t8", p |-> 50, impact |-> 100, detect |-> 30, time |-> 100] >>

\* Sequences over S of length at most n.
SeqUpTo(S, n) == UNION {[1..k -> S] : k \in 0..n}

\* The increasing sequence of the elements of a set of integers.
RECURSIVE Ascending(_)
Ascending(S) ==
    IF S = {} THEN <<>>
    ELSE LET m == CHOOSE x \in S : \A y \in S : x <= y
         IN <<m>> \o Ascending(S \ {m})

Reverse(s) == [i \in 1..Len(s) |-> s[Len(s) + 1 - i]]

\* Edge lists: at most n records of the pool, in pool order or in the
\* opposite order.
EdgeListsOf(pool, n) ==
    LET picks == {S \in SUBSET (1..Len(pool)) : Cardinality(S) <= n}
        up(S) == [i \in 1..Cardinality(S) |-> pool[Ascending(S)[i]]]
    IN {up(S) : S \in picks} \cup {Reverse(up(S)) : S \in picks}

EdgeLists(n) == EdgeListsOf(EdgePool, n)

AssetLists == {<<"A", "B">>}
StartLists == {<<>>, <<"A">>, <<"B">>, <<"A", "B">>, <<"B", "A">>, <<"A", "A">>}
GoalLists == {<<>>, <<"D">>, <<"B", "D">>, <<"A", "D">>, <<"A", "B", "D">>, <<"C">>}
Depths == (0 - 1)..MaxDepth

Range(s) == {s[i] : i \in 1..Len(s)}

\* All orders in which the elements of a finite set can be listed.
Perms(S) == {q \in [1..Cardinality(S) -> S] : Range(q) = S}

\* ---------------------------------------------------------------- state
VARIABLES
    cfg,          \* the graph description handed to the constructor
    error,        \* "none", or the exception the constructor raised
    assets,       \* self.assets
    start_nodes,  \* self.start_nodes (a set)
    goal_nodes,   \* self.goal_nodes (a set)
    edges,        \* self.edges: the supplied list of edge records
    adj,          \* self.adj: src -> list of edges (as positions in edges)
    start_iter,   \* the order in which the set self.start_nodes iterates
    op,           \* the last call made on the object
    arg,          \* its argument
    nbrs,         \* value returned by the last neighbors() call
    paths,        \* value returned by the last enumerate_paths() call
    calls,        \* the activation of each concurrent enumerate_paths caller
    raised,       \* "none", or the exception the last call on the object raised
    args,         \* the arguments of the last scoring or ranking call
    score,        \* the values the metric functions returned for args.path
    ranked,       \* value returned by the last rank_paths() call
    viz,          \* value returned by the last edges_from_attackgraph() call
    execution,    \* value returned by the last execute_attack_path() call
    execution_state, \* graph_viz.execution_state
    response,     \* the answer of the last /execute request
    rounds        \* how many executions or updates were run so far

graph == <<assets, start_nodes, goal_nodes, edges, adj>>
vars == <<cfg, error, assets, start_nodes, goal_nodes, edges, adj, start_iter,
          op, arg, nbrs, paths, calls, raised, args, score, ranked, viz,
          execution, execution_state, response, rounds>>

\* ---------------------------------------------------------------- constructor
\* setdefault with the new edge put in front of the list.
SetDefaultPrepend(a, k, v) ==
    IF k \in DOMAIN a
    THEN [a EXCEPT ![k] = <<v>> \o @]
    ELSE [x \in DOMAIN a \cup {k} |-> IF x = k THEN <<v>> ELSE a[x]]

\* self.adj.setdefault(k, []).append(v)
SetDefaultAppend(a, k, v) ==
    IF k \in DOMAIN a
    THEN [a EXCEPT ![k] = Append(@, v)]
    ELSE [x \in DOMAIN a \cup {k} |-> IF x = k THEN <<v>> ELSE a[x]]

\* for e in edges: self.adj.setdefault(e["src"], []).append(e)
\* e["src"] raises KeyError on an edge that carries no src.
RECURSIVE BuildAdj(_, _, _)
BuildAdj(es, i, a) ==
    IF i > Len(es) THEN [error |-> "none", adj |-> a]
    ELSE IF "src" \notin es[i].keys THEN [error |-> "KeyError", adj |-> <<>>]
    ELSE BuildAdj(es, i + 1, SetDefaultAppend(a, es[i].src, i))

\* AttackGraph.__init__: the object's fields, or the exception raised (and
\* then there is no object).
New(as, ss, gs, es) ==
    LET built == BuildAdj(es, 1, <<>>)
    IN IF built.error # "none"
       THEN [error |-> built.error, assets |-> {}, start_nodes |-> {},
             goal_nodes |-> {}, edges |-> <<>>, adj |-> <<>>]
       ELSE [error |-> "none",
             assets |-> Range(as) \cup Range(ss) \cup Range(gs),
             start_nodes |-> Range(ss), goal_nodes |-> Range(gs),
             edges |-> es, adj |-> built.adj]

\* ---------------------------------------------------------------- queries
\* The adjacency list read back to front.
neighborsReversed(node) == IF node \in DOMAIN adj THEN Reverse(adj[node]) ELSE <<>>

\* self.adj.get(node, [])
neighbors(node) == IF node \in DOMAIN adj THEN adj[node] ELSE <<>>

\* A lookup that inserts the missing key, as setdefault() would.
AdjAfterSetdefault(node) ==
    IF node \in DOMAIN adj THEN adj
    ELSE [x \in DOMAIN adj \cup {node} |-> IF x = node THEN <<>> ELSE adj[x]]

\* self.adj once neighbors(node) has returned: get() inserts nothing.
AdjAfterNeighbors(node) == adj

\* ---------------------------------------------------------------- search
\* A path is a list of edges of self.edges, held by position.
Src(i) == edges[i].src
Dst(i) == edges[i].dst
HasDst(i) == "dst" \in edges[i].keys

\* The bound tested one step too early.
DepthExceededAtBound(path, max_depth) == Len(path) >= max_depth

\* The bound tested one step too late.
DepthExceededPastBound(path, max_depth) == Len(path) > max_depth + 1

\* if len(path) > max_depth: return
DepthExceeded(path, max_depth) == Len(path) > max_depth

\* A search that starts with nothing seen.
InitialSeenEmpty(s) == {}

\* seen={s}
InitialSeen(s) == {s}

\* if nxt in seen and nxt not in self.goal_nodes: continue
Pruned(nxt, seen) == nxt \in seen /\ nxt \notin goal_nodes

RECURSIVE Dfs(_, _, _, _, _), DfsLoop(_, _, _, _, _, _)

\* A search that records a goal and goes on through its outgoing edges.
DfsExpandsGoal(current, path, seen, found, max_depth) ==
    IF DepthExceeded(path, max_depth)
    THEN [paths |-> found, seen |-> seen, raised |-> "none"]
    ELSE DfsLoop(neighbors(current), 1, path, seen,
                 IF current \in goal_nodes THEN Append(found, path) ELSE found,
                 max_depth)

\* AttackGraph._dfs up to its loop.  The value is the paths list and the
\* seen set as the call leaves them (both are mutated in place), and the
\* exception that ended the call, if one did.
Dfs(current, path, seen, found, max_depth) ==
    IF DepthExceeded(path, max_depth)
    THEN [paths |-> found, seen |-> seen, raised |-> "none"]
    ELSE IF current \in goal_nodes
    THEN [paths |-> Append(found, path), seen |-> seen, raised |-> "none"]
    ELSE DfsLoop(neighbors(current), 1, path, seen, found, max_depth)

\* The loop of _dfs over the list es, from its i-th element on.  e["dst"]
\* raises KeyError on an edge that carries no dst, and an exception raised
\* by the inner call ends this one too.
DfsLoop(es, i, path, seen, found, max_depth) ==
    IF i > Len(es) THEN [paths |-> found, seen |-> seen, raised |-> "none"]
    ELSE IF ~HasDst(es[i]) THEN [paths |-> found, seen |-> seen, raised |-> "KeyError"]
    ELSE LET e == es[i]
             nxt == Dst(e)
         IN IF Pruned(nxt, seen)
            THEN DfsLoop(es, i + 1, path, seen, found, max_depth)
            ELSE LET r == Dfs(nxt, Append(path, e), seen \cup {nxt}, found, max_depth)
                 IN IF r.raised # "none" THEN r
                    ELSE DfsLoop(es, i + 1, path, r.seen \ {nxt}, r.paths, max_depth)

\* for s in self.start_nodes: self._dfs(s, [], {s}, paths, max_depth)
\* with the set iterated in the given order, from its k-th element on.
\* The value is the list to return, and the exception raised instead.
RECURSIVE EnumerateCall(_, _, _, _)
EnumerateCall(order, k, found, max_depth) ==
    IF k > Len(order) THEN [paths |-> found, raised |-> "none"]
    ELSE LET r == Dfs(order[k], <<>>, InitialSeen(order[k]), found, max_depth)
         IN IF r.raised # "none" THEN [paths |-> <<>>, raised |-> r.raised]
            ELSE EnumerateCall(order, k + 1, r.paths, max_depth)

\* The list enumerate_paths returns when the set iterates in this order.
EnumerateFrom(order, k, found, max_depth) == EnumerateCall(order, k, found, max_depth).paths

\* AttackGraph.enumerate_paths
enumerate_paths(max_depth) == EnumerateFrom(start_iter, 1, <<>>, max_depth)

\* ---------------------------------------------------------------- sequential use
\* No concurrent caller.
NoCalls == [ctl |-> <<>>, heap |-> <<>>]

\* No scoring or ranking call made yet.
NoArgs == [path |-> <<>>, wI |-> 0, wD |-> 0, wT |-> 0, wP |-> 0, max_depth |-> 0, top_k |-> 0,
           created |-> TRUE, outcomes |-> <<>>, results |-> <<>>]
NoScore == [prob |-> 0, P |-> 0, impact |-> 0, detect |-> 0, time |-> 0, utility |-> 0]

\* No path executed yet, and graph_viz.execution_state as the module sets it.
NoExecution == [error |-> "none", operation_id |-> "", completed_steps |-> 0,
                total_steps |-> 0, results |-> <<>>, attempted |-> <<>>]
EmptyExecutionState ==
    [execution_history |-> <<>>, active_operations |-> <<>>, graph_updates |-> <<>>]

\* The object as the constructor leaves it, for every description given; the
\* set self.start_nodes iterates in an order the run decides.
InitFrom(descriptions, cs) ==
    /\ cfg \in descriptions
    /\ LET g == New(cfg.assets, cfg.start_nodes, cfg.goal_nodes, cfg.edges)
       IN /\ error = g.error
          /\ assets = g.assets
          /\ start_nodes = g.start_nodes
          /\ goal_nodes = g.goal_nodes
          /\ edges = g.edges
          /\ adj = g.adj
          /\ start_iter \in Perms(g.start_nodes)
    /\ op = "new"
    /\ arg = 0
    /\ nbrs = <<>>
    /\ paths = <<>>
    /\ calls = cs
    /\ raised = "none"
    /\ score = NoScore
    /\ ranked = <<>>
    /\ viz = <<>>
    /\ execution = NoExecution
    /\ execution_state = EmptyExecutionState
    /\ response = "none"
    /\ rounds = 0

InitWith(n, cs) ==
    /\ InitFrom([assets : AssetLists, start_nodes : StartLists,
                 goal_nodes : GoalLists, edges : EdgeLists(n)], cs)
    /\ args = NoArgs

Init == InitWith(MaxEdges, NoCalls)

\* g.neighbors(node)
Neighbors ==
    /\ error = "none"
    /\ \E node \in Nodes :
          /\ nbrs' = neighbors(node)
          /\ adj' = AdjAfterNeighbors(node)
          /\ op' = "neighbors"
          /\ arg' = node
    /\ raised' = "none"
    /\ UNCHANGED <<cfg, error, assets, start_nodes, goal_nodes, edges,
                   start_iter, paths, calls, args, score, ranked, viz,
                   execution, execution_state, response, rounds>>

\* g.enumerate_paths(max_depth)
EnumeratePaths ==
    /\ error = "none"
    /\ \E max_depth \in Depths :
          /\ paths' = enumerate_paths(max_depth)
          /\ raised' = EnumerateCall(start_iter, 1, <<>>, max_depth).raised
          /\ op' = "enumerate_paths"
          /\ arg' = max_depth
    /\ UNCHANGED <<cfg, error, assets, start_nodes, goal_nodes, edges, adj,
                   start_iter, nbrs, calls, args, score, ranked, viz,
                   execution, execution_state, response, rounds>>

Next == Neighbors \/ EnumeratePaths

Spec == Init /\ [][Next]_vars

\* ---------------------------------------------------------------- two callers
\* Two threads call enumerate_paths on the same object.  A thread's control
\* state is its own call stack; paths, path and seen are objects on the heap
\* that the call creates and reaches through its local variables.
Threads == {1, 2}
\* The max_depth each caller passes.
ConcDepth == <<2, 1>>

\* One object set shared by every caller.
SharedCell(t) == 1

\* The objects caller t works on: those its own call created.
Cell(t) == t

IdleCtl == [pc |-> "idle", max_depth |-> 0, todo |-> <<>>, stack |-> <<>>]
EmptyHeap == [paths |-> <<>>, path |-> <<>>, seen |-> {}]
IdleCalls == [ctl |-> [t \in Threads |-> IdleCtl], heap |-> [t \in Threads |-> EmptyHeap]]

InitConc == InitWith(MaxConcEdges, IdleCalls)

Ctl(t) == calls.ctl[t]
Heap(t) == calls.heap[Cell(t)]

\* The new value of calls when thread t moves to control state c and leaves
\* its objects as h.
Moved(t, c, h) ==
    [ctl |-> [calls.ctl EXCEPT ![t] = c], heap |-> [calls.heap EXCEPT ![Cell(t)] = h]]

ButLast(s) == SubSeq(s, 1, Len(s) - 1)

\* return from the _dfs frame on top of the stack: the caller's loop goes on
\* with path.pop(), seen.discard(nxt) and its next edge.
Return(c, h) ==
    LET done == c.stack[Len(c.stack)]
        rest == ButLast(c.stack)
    IN IF rest = <<>>
       THEN <<[c EXCEPT !.stack = rest], h>>
       ELSE <<[c EXCEPT !.stack = [rest EXCEPT ![Len(rest)].i = @ + 1]],
              [h EXCEPT !.path = ButLast(@), !.seen = @ \ {done.current}]>>

\* A continue that leaves the loop at the edge it skipped.
ContinueSameEdge(i) == i

\* continue: the for loop of _dfs goes on with the edge after edge i.
Continue(i) == i + 1

\* paths = [] on entry to enumerate_paths(max_depth)
CallWith(t, max_depth) ==
    /\ error = "none"
    /\ Ctl(t).pc \in {"idle", "returned", "raised"}
    /\ calls' = Moved(t, [pc |-> "running", max_depth |-> max_depth,
                           todo |-> start_iter, stack |-> <<>>],
                       [Heap(t) EXCEPT !.paths = <<>>])
    /\ UNCHANGED <<cfg, error, assets, start_nodes, goal_nodes, edges, adj,
                   start_iter, op, arg, nbrs, paths, raised, args, score, ranked, viz,
                   execution, execution_state, response, rounds>>

Call(t) == CallWith(t, ConcDepth[t])

\* One step of thread t inside enumerate_paths: the next start node, the
\* tests on entry to _dfs, one turn of its loop, a return, or the KeyError
\* of e["dst"] that ends the call.
Step(t) ==
    /\ Ctl(t).pc = "running"
    /\ LET c == Ctl(t)
           h == Heap(t)
           top == c.stack[Len(c.stack)]
           es == neighbors(top.current)
           nxt == Dst(es[top.i])
           turn(i) == [c EXCEPT !.stack[Len(c.stack)].i = i]
       IN calls' =
            IF c.stack = <<>>
            THEN IF c.todo = <<>>
                 THEN Moved(t, [c EXCEPT !.pc = "returned"], h)
                 ELSE Moved(t, [c EXCEPT !.todo = Tail(@),
                                         !.stack = <<[current |-> Head(c.todo), i |-> 0]>>],
                            [h EXCEPT !.path = <<>>, !.seen = InitialSeen(Head(c.todo))])
            ELSE IF top.i = 0
            THEN IF DepthExceeded(h.path, c.max_depth)
                 THEN Moved(t, Return(c, h)[1], Return(c, h)[2])
                 ELSE IF top.current \in goal_nodes
                 THEN LET hh == [h EXCEPT !.paths = Append(@, h.path)]
                      IN Moved(t, Return(c, hh)[1], Return(c, hh)[2])
                 ELSE Moved(t, turn(1), h)
            ELSE IF top.i > Len(es)
            THEN Moved(t, Return(c, h)[1], Return(c, h)[2])
            ELSE IF ~HasDst(es[top.i])
            THEN Moved(t, [c EXCEPT !.pc = "raised"], h)
            ELSE IF Pruned(nxt, h.seen)
            THEN Moved(t, turn(Continue(top.i)), h)
            ELSE Moved(t, [c EXCEPT !.stack = Append(@, [current |-> nxt, i |-> 0])],
                       [h EXCEPT !.path = Append(@, es[top.i]), !.seen = @ \cup {nxt}])
    /\ UNCHANGED <<cfg, error, assets, start_nodes, goal_nodes, edges, adj,
                   start_iter, op, arg, nbrs, paths, raised, args, score, ranked, viz,
                   execution, execution_state, response, rounds>>

NextConc == \E t \in Threads : Call(t) \/ Step(t)

SpecConc == InitConc /\ [][NextConc]_vars

\* ---------------------------------------------------------------- malformed descriptions
\* Edge records of which one carries no dst and one no src.
MalformedPool ==
    << [keys |-> AllKeys,
        src |-> "A", dst |-> "B", technique |-> "t1", p |-> 50, impact |-> 100, detect |-> 20, time |-> 100],
       [keys |-> AllKeys,
        src |-> "B", dst |-> "D", technique |-> "t2", p |-> 80, impact |-> 200, detect |-> 10, time |-> 100],
       [keys |-> AllKeys \ {"dst"},
        src |-> "A", dst |-> "", technique |-> "t9", p |-> 50, impact |-> 100, detect |-> 30, time |-> 100],
       [keys |-> AllKeys \ {"src"},
        src |-> "", dst |-> "B", technique |-> "t8", p |-> 50, impact |-> 100, detect |-> 30, time |-> 100] >>

InitMalformed ==
    /\ InitFrom([assets : AssetLists, start_nodes : StartLists,
                 goal_nodes : GoalLists, edges : EdgeListsOf(MalformedPool, MaxEdges)],
                NoCalls)
    /\ args = NoArgs

SpecMalformed == InitMalformed /\ [][Next]_vars

\* ---------------------------------------------------------------- one caller, step by step
\* A single caller runs enumerate_paths with any max_depth, one step of the
\* interpreter at a time.  The code is synchronous and never waits, so a
\* running call always takes its next step (weak fairness on Step).
MaxTermEdges == 3

InitTerm == InitWith(MaxTermEdges, IdleCalls)

CallAny(t) == \E max_depth \in Depths : CallWith(t, max_depth)

NextTerm == CallAny(1) \/ Step(1)

SpecTerm == InitTerm /\ [][NextTerm]_vars /\ WF_vars(Step(1))

\* ---------------------------------------------------------------- path metrics (src/src/models.py)
\* Edge attributes are in hundredths, weights in tenths, a probability in
\* units of 1e-9 (exact for a path of up to four edges), a logarithm in
\* thousandths and a utility in units of 1e-4.
MaxScoreEdges == 3   \* longest edge list in the scoring specification
MaxPathLen == 3      \* longest path handed to the metric functions

DefaultP == 50              \* e.get("p", 0.5)
DefaultImpact == 100        \* e.get("impact", 1.0)
DefaultDetect == 30         \* e.get("detect", 0.3)
DefaultTime == 100          \* e.get("time", 1.0)
Certain == 1000000000       \* p = 1.0
MinProb == 1                \* 1e-9

\* The builtins min and max.
min(a, b) == IF a <= b THEN a ELSE b
max(a, b) == IF a >= b THEN a ELSE b

\* e.get(k, dflt)
Get(e, k, dflt) == IF k \in e.keys THEN e[k] ELSE dflt

\* A clamp from above only.
ClampedAbove(x) == min(100, x)

\* max(0.0, min(1.0, x))
Clamped(x) == max(0, min(100, x))

\* path_success_probability: p = 1.0; for e in path: p *= clamp(e.get("p", 0.5))
RECURSIVE SuccessFrom(_, _, _)
SuccessFrom(path, i, p) ==
    IF i > Len(path) THEN p
    ELSE SuccessFrom(path, i + 1, (p \div 100) * Clamped(Get(edges[path[i]], "p", DefaultP)))

path_success_probability(path) == SuccessFrom(path, 1, Certain)

\* sum(float(e.get(k, dflt)) for e in path)
RECURSIVE SumOf(_, _, _)
SumOf(path, k, dflt) ==
    IF path = <<>> THEN 0
    ELSE Get(edges[Head(path)], k, dflt) + SumOf(Tail(path), k, dflt)

path_impact(path) == SumOf(path, "impact", DefaultImpact)

\* A detectability that counts nothing for an edge without the attribute.
path_detectability_without_default(path) == SumOf(path, "detect", 0)

path_detectability(path) == SumOf(path, "detect", DefaultDetect)

path_time(path) == SumOf(path, "time", DefaultTime)

\* math.log, computed in fixed point: the position of the leading bit of n,
\* then ten more bits of log2 by repeated squaring of the mantissa (14
\* fractional bits), then times ln 2.
RECURSIVE FloorLog2(_)
FloorLog2(n) == IF n < 2 THEN 0 ELSE 1 + FloorLog2(n \div 2)

RECURSIVE Pow2(_)
Pow2(k) == IF k = 0 THEN 1 ELSE 2 * Pow2(k - 1)

Mantissa(n) ==
    LET k == FloorLog2(n)
    IN IF k >= 14 THEN n \div Pow2(k - 14) ELSE n * Pow2(14 - k)

RECURSIVE FracBits(_, _)
FracBits(m, b) ==
    IF b = 0 THEN 0
    ELSE LET sq == (m * m) \div 16384
         IN IF sq >= 32768
            THEN Pow2(b - 1) + FracBits(sq \div 2, b - 1)
            ELSE FracBits(sq, b - 1)

\* 1024 * log2(n), for n >= 1
Log2(n) == 1024 * FloorLog2(n) + FracBits(Mantissa(n), 10)

Log2Certain == Log2(Certain)

\* math.log(x) for x in units of 1e-9: ValueError (math domain error) unless
\* x > 0, else ln(x) in thousandths.
log(x) ==
    IF x <= 0 THEN [raised |-> "ValueError", value |-> 0]
    ELSE [raised |-> "none",
          value |-> ((Log2(x) - Log2Certain) * 6931) \div 10240]

\* A utility that takes the logarithm of the probability as it is.
utility_without_floor(path, wI, wD, wT, wP) ==
    LET P == path_success_probability(path)
        I == path_impact(path)
        D == path_detectability(path)
        T == path_time(path)
        L == log(P)
    IN [raised |-> L.raised, P |-> P,
        value |-> IF L.raised # "none" THEN 0
                  ELSE wI * I * 10 + wP * L.value - wD * D * 10 - wT * T * 10]

\* utility: the value returned, the local P, and the exception raised instead
utility(path, wI, wD, wT, wP) ==
    LET P == max(MinProb, path_success_probability(path))
        I == path_impact(path)
        D == path_detectability(path)
        T == path_time(path)
        L == log(P)
    IN [raised |-> L.raised, P |-> P,
        value |-> IF L.raised # "none" THEN 0
                  ELSE wI * I * 10 + wP * L.value - wD * D * 10 - wT * T * 10]

\* ---------------------------------------------------------------- edge readers (src/src/graph_viz.py)
VizDefaultP == 50           \* e.get("p", 0.5)
VizDefaultImpact == 100     \* e.get("impact", 1.0)
VizDefaultDetect == 30      \* e.get("detect", 0.3)
VizDefaultTime == 100       \* e.get("time", 1.0)
UpdateDefaultP == 50        \* edge.get("p", 0.5)
UpdateDefaultDetect == 30   \* edge.get("detect", 0.3)

\* The keys of self.adj in the order a dict iterates them: the order in
\* which the constructor first met each src.
RECURSIVE AdjKeys(_, _)
AdjKeys(i, ks) ==
    IF i > Len(edges) THEN ks
    ELSE AdjKeys(i + 1, IF edges[i].src \in Range(ks) THEN ks ELSE Append(ks, edges[i].src))

\* The record edges_from_attackgraph builds for edge e of adj[src].
VizEdge(src, e) ==
    [src |-> src,
     dst |-> edges[e].dst,
     technique |-> Get(edges[e], "technique", "?"),
     p |-> Get(edges[e], "p", VizDefaultP),
     impact |-> Get(edges[e], "impact", VizDefaultImpact),
     detect |-> Get(edges[e], "detect", VizDefaultDetect),
     time |-> Get(edges[e], "time", VizDefaultTime),
     status |-> Get(edges[e], "status", "not_executed"),
     edge |-> e]                \* which edge of self.edges the record was built from

\* for src, elist in g.adj.items(): for e in elist: edges.append({...})
RECURSIVE VizFrom(_, _, _, _)
VizFrom(ks, k, j, out) ==
    IF k > Len(ks) THEN [raised |-> "none", edges |-> out]
    ELSE IF j > Len(adj[ks[k]]) THEN VizFrom(ks, k + 1, 1, out)
    ELSE IF ~HasDst(adj[ks[k]][j]) THEN [raised |-> "KeyError", edges |-> <<>>]
    ELSE VizFrom(ks, k, j + 1, Append(out, VizEdge(ks[k], adj[ks[k]][j])))

edges_from_attackgraph == VizFrom(AdjKeys(1, <<>>), 1, 1, <<>>)

\* update_graph_from_execution: old_p = edge.get("p", 0.5) and
\* old_detect = edge.get("detect", 0.3)
old_p(edge) == Get(edge, "p", UpdateDefaultP)
old_detect(edge) == Get(edge, "detect", UpdateDefaultDetect)

\* ---------------------------------------------------------------- scoring calls
\* Edge records with a probability above 1, at 0 and below 0, with
\* attributes left out, and with attributes outside their usual range.
ScorePool ==
    << EdgePool[1], EdgePool[3], EdgePool[4], EdgePool[5],
       [keys |-> AllKeys \ {"time"},
        src |-> "C", dst |-> "B", technique |-> "t10", p |-> 0 - 20, impact |-> 0 - 50, detect |-> 150, time |-> 0] >>

\* wI, wD, wT, wP: the defaults, time alone, and a negative weight.
WeightSets ==
    { [wI |-> 10, wD |-> 5, wT |-> 1, wP |-> 10],
      [wI |-> 0, wD |-> 0, wT |-> 1, wP |-> 0],
      [wI |-> 0 - 10, wD |-> 20, wT |-> 0, wP |-> 20] }

\* The graph, and the arguments of the scoring call the run makes: any
\* list of edges of the graph, with any of the weight sets.
InitScore ==
    /\ InitFrom([assets : AssetLists, start_nodes : {<<"A">>}, goal_nodes : {<<"D">>},
                 edges : EdgeListsOf(ScorePool, MaxScoreEdges)], NoCalls)
    /\ \E path \in SeqUpTo(1..Len(cfg.edges), MaxPathLen), w \in WeightSets :
          args = [NoArgs EXCEPT !.path = path, !.wI = w.wI, !.wD = w.wD,
                                !.wT = w.wT, !.wP = w.wP]

\* utility(path, wI, wD, wT, wP)
Utility ==
    /\ error = "none"
    /\ \E u \in {utility(args.path, args.wI, args.wD, args.wT, args.wP)} :
          /\ score' = [prob |-> path_success_probability(args.path), P |-> u.P,
                       impact |-> path_impact(args.path),
                       detect |-> path_detectability(args.path),
                       time |-> path_time(args.path), utility |-> u.value]
          /\ raised' = u.raised
    /\ op' = "utility"
    /\ UNCHANGED <<cfg, error, assets, start_nodes, goal_nodes, edges, adj,
                   start_iter, arg, nbrs, paths, calls, args, ranked, viz,
                   execution, execution_state, response, rounds>>

\* edges_from_attackgraph(g)
EdgesFromAttackgraph ==
    /\ error = "none"
    /\ viz' = edges_from_attackgraph.edges
    /\ raised' = edges_from_attackgraph.raised
    /\ op' = "edges_from_attackgraph"
    /\ UNCHANGED <<cfg, error, assets, start_nodes, goal_nodes, edges, adj,
                   start_iter, arg, nbrs, paths, calls, args, score, ranked,
                   execution, execution_state, response, rounds>>

NextScore == Utility \/ EdgesFromAttackgraph

SpecScore == InitScore /\ [][NextScore]_vars

\* ---------------------------------------------------------------- ranking (planner.rank_paths, called by src/src/cli.py)
MaxPlanEdges == 3    \* longest edge list in the ranking specification

\* The Ranked Path Record of one path.
RankedRecord(path, wI, wD, wT, wP) ==
    [path |-> path,
     prob |-> path_success_probability(path),
     impact |-> path_impact(path),
     detect |-> path_detectability(path),
     time |-> path_time(path),
     utility |-> utility(path, wI, wD, wT, wP).value]

\* r put into a list sorted by descending utility, behind every record
\* whose utility is at least its own.
RECURSIVE InsertByUtility(_, _)
InsertByUtility(sorted, r) ==
    IF sorted = <<>> THEN <<r>>
    ELSE IF Head(sorted).utility >= r.utility
    THEN <<Head(sorted)>> \o InsertByUtility(Tail(sorted), r)
    ELSE <<r>> \o sorted

\* The stable sort, descending by utility, of the records of ps[i..].
RECURSIVE SortByUtility(_, _, _, _, _, _, _)
SortByUtility(ps, i, sorted, wI, wD, wT, wP) ==
    IF i > Len(ps) THEN sorted
    ELSE SortByUtility(ps, i + 1,
                       InsertByUtility(sorted, RankedRecord(ps[i], wI, wD, wT, wP)),
                       wI, wD, wT, wP)

\* rank_paths(paths, wI, wD, wT, wP, top_k): score every path, sort, and
\* keep the first top_k records, or all of them when top_k <= 0.
rank_paths(ps, wI, wD, wT, wP, top_k) ==
    LET sorted == SortByUtility(ps, 1, <<>>, wI, wD, wT, wP)
    IN IF top_k > 0 THEN SubSeq(sorted, 1, min(top_k, Len(sorted))) ELSE sorted

\* A main that hands the paths to rank_paths last first.
mainRanksReversed(a) ==
    LET found == EnumerateCall(start_iter, 1, <<>>, a.max_depth)
    IN [raised |-> found.raised, paths |-> found.paths,
        ranked |-> IF found.raised # "none" THEN <<>>
                   ELSE rank_paths(Reverse(found.paths), a.wI, a.wD, a.wT, a.wP, a.top_k)]

\* A main that passes --max-depth where --top-k belongs.
mainTopKFromMaxDepth(a) ==
    LET found == EnumerateCall(start_iter, 1, <<>>, a.max_depth)
    IN [raised |-> found.raised, paths |-> found.paths,
        ranked |-> IF found.raised # "none" THEN <<>>
                   ELSE rank_paths(found.paths, a.wI, a.wD, a.wT, a.wP, a.max_depth)]

\* A main that passes --wD as wI and --wI as wD.
mainSwapsWeights(a) ==
    LET found == EnumerateCall(start_iter, 1, <<>>, a.max_depth)
    IN [raised |-> found.raised, paths |-> found.paths,
        ranked |-> IF found.raised # "none" THEN <<>>
                   ELSE rank_paths(found.paths, a.wD, a.wI, a.wT, a.wP, a.top_k)]

\* main: paths = g.enumerate_paths(max_depth=a.max_depth)
\*       ranked = rank_paths(paths, wI=a.wI, wD=a.wD, wT=a.wT, wP=a.wP, top_k=a.top_k)
main(a) ==
    LET found == EnumerateCall(start_iter, 1, <<>>, a.max_depth)
    IN [raised |-> found.raised, paths |-> found.paths,
        ranked |-> IF found.raised # "none" THEN <<>>
                   ELSE rank_paths(found.paths, a.wI, a.wD, a.wT, a.wP, a.top_k)]

\* Edge records that give two parallel paths A -> B -> D and a path A -> C -> D.
PlanPool == << EdgePool[1], EdgePool[2], EdgePool[7], EdgePool[3], EdgePool[4] >>

PlanStartLists == {<<>>, <<"A">>, <<"A", "B">>}
PlanGoalLists == {<<>>, <<"D">>, <<"B", "D">>}

\* --top-k: negative, zero, below and above the number of paths (5 is the default).
TopKs == {0 - 1, 0, 1, 2, 5}

\* The graph, and the command line of the run.
InitPlan ==
    /\ InitFrom([assets : AssetLists, start_nodes : PlanStartLists,
                 goal_nodes : PlanGoalLists, edges : EdgeListsOf(PlanPool, MaxPlanEdges)],
                NoCalls)
    /\ \E w \in WeightSets, max_depth \in Depths, top_k \in TopKs :
          args = [NoArgs EXCEPT !.wI = w.wI, !.wD = w.wD, !.wT = w.wT, !.wP = w.wP,
                                !.max_depth = max_depth, !.top_k = top_k]

\* The normal CLI path of main
Main ==
    /\ error = "none"
    /\ \E m \in {main(args)} :
          /\ paths' = m.paths
          /\ ranked' = m.ranked
          /\ raised' = m.raised
    /\ op' = "main"
    /\ UNCHANGED <<cfg, error, assets, start_nodes, goal_nodes, edges, adj,
                   start_iter, arg, nbrs, calls, args, score, viz,
                   execution, execution_state, response, rounds>>

NextPlan == Main

SpecPlan == InitPlan /\ [][NextPlan]_vars

\* ---------------------------------------------------------------- path execution (src/src/caldera_integration.py)
MaxExecEdges == 2    \* longest edge list in the execution specification

\* What the Caldera server does with one step: whether an ability matches
\* the technique, whether the ability could be launched (a link id came
\* back), and the status and visibility of the link.  get_link_result
\* reports a link status success, failure or timeout, and timeout with
\* detected = False when the link did not finish in time.
Outcomes ==
    { [ability |-> FALSE, link |-> FALSE, status |-> "timeout", detected |-> FALSE],
      [ability |-> TRUE, link |-> FALSE, status |-> "timeout", detected |-> FALSE],
      [ability |-> TRUE, link |-> TRUE, status |-> "success", detected |-> FALSE],
      [ability |-> TRUE, link |-> TRUE, status |-> "success", detected |-> TRUE],
      [ability |-> TRUE, link |-> TRUE, status |-> "failure", detected |-> TRUE],
      [ability |-> TRUE, link |-> TRUE, status |-> "timeout", detected |-> FALSE] }

\* technique = step.get("technique", "Unknown")
technique_of(step) == Get(step, "technique", "Unknown")

\* The result the loop appends for a step, given what the server did.
StepResult(step, o) ==
    IF ~o.ability
    THEN [step |-> technique_of(step), status |-> "skipped", detected |-> FALSE]
    ELSE IF ~o.link
    THEN [step |-> technique_of(step), status |-> "failed", detected |-> FALSE]
    ELSE [step |-> technique_of(step), status |-> o.status, detected |-> o.detected]

\* A loop that goes on after a step that did not succeed.
NeverStops(o) == FALSE

\* break: the launch failed, or the link's status is not success.  A step
\* without a matching ability takes continue instead.
Stops(o) == o.ability /\ (~o.link \/ o.status # "success")

\* for i, step in enumerate(path, 1): ... from the i-th step on.  attempted
\* lists the positions in path of the steps the loop has taken up.
RECURSIVE RunSteps(_, _, _, _, _)
RunSteps(path, i, outcomes, results, attempted) ==
    IF i > Len(path) THEN [results |-> results, attempted |-> attempted]
    ELSE LET r == StepResult(edges[path[i]], outcomes[i])
         IN IF Stops(outcomes[i])
            THEN [results |-> Append(results, r), attempted |-> Append(attempted, i)]
            ELSE RunSteps(path, i + 1, outcomes, Append(results, r), Append(attempted, i))

\* execute_attack_path(path, operation_name, agents): created says whether
\* create_operation returned an operation, id is the id it carries.
execute_attack_path(path, created, id, outcomes) ==
    IF ~created
    THEN [NoExecution EXCEPT !.error = "Failed to create operation"]
    ELSE LET run == RunSteps(path, 1, outcomes, <<>>, <<>>)
         IN [error |-> "none", operation_id |-> id,
             completed_steps |-> Len(run.results), total_steps |-> Len(path),
             results |-> run.results, attempted |-> run.attempted]

\* Edge records for execution, one of them without a technique.
ExecPool ==
    << EdgePool[1], EdgePool[2],
       [keys |-> AllKeys \ {"technique"},
        src |-> "B", dst |-> "C", technique |-> "", p |-> 50, impact |-> 100, detect |-> 30, time |-> 100] >>

\* The graph, the path to execute and what the server will do on each step.
InitExec ==
    /\ InitFrom([assets : AssetLists, start_nodes : {<<"A">>}, goal_nodes : {<<"D">>},
                 edges : EdgeListsOf(ExecPool, MaxExecEdges)], NoCalls)
    /\ \E path \in SeqUpTo(1..Len(cfg.edges), MaxPathLen), created \in BOOLEAN :
          \E outcomes \in [1..Len(path) -> Outcomes] :
             args = [NoArgs EXCEPT !.path = path, !.created = created, !.outcomes = outcomes]

\* caldera.execute_attack_path(path, name, agents)
ExecuteAttackPath ==
    /\ error = "none"
    /\ execution' = execute_attack_path(args.path, args.created, rounds + 1, args.outcomes)
    /\ op' = "execute_attack_path"
    /\ UNCHANGED <<cfg, error, assets, start_nodes, goal_nodes, edges, adj,
                   start_iter, arg, nbrs, paths, calls, raised, args, score, ranked, viz,
                   execution_state, response, rounds>>

NextExec == ExecuteAttackPath

SpecExec == InitExec /\ [][NextExec]_vars

\* ---------------------------------------------------------------- execution updates (src/src/graph_viz.py, src/mock_workflow.py)
MaxRounds == 2       \* update calls, or dashboard requests, in one run

MockDefaultP == 50          \* edge.get("p", 0.5)
MockDefaultDetect == 30     \* edge.get("detect", 0.3)

\* A dict that is left with the one key it was given.
SetItemAlone(e, k, v) == [e EXCEPT ![k] = v, !.keys = {k}]

\* edge[k] = v
SetItem(e, k, v) == [e EXCEPT ![k] = v, !.keys = @ \cup {k}]

\* A success that multiplies without the cap.
AfterSuccessUncapped(p) == (p * 12) \div 10

\* min(1.0, old_p * 1.2), in hundredths
AfterSuccess(p) == min(100, (p * 12) \div 10)

\* max(0.0, old_p * 0.5)
AfterFailed(p) == max(0, (p * 5) \div 10)

\* min(1.0, old_detect * 1.3)
AfterDetected(d) == min(100, (d * 13) \div 10)

\* edge.get("technique") == technique
Matches(edge, technique) == "technique" \in edge.keys /\ edge.technique = technique

\* The body of the inner loop of graph_viz.update_graph_from_execution for
\* a matching edge: the edge as the body leaves it, the entry it appends
\* to updates, and the exception it raises: the entry reads edge["p"] and
\* edge["detect"], a KeyError on an edge that stores none by then.
UpdateEdge(edge, result) ==
    LET scored == IF result.status = "success"
                  THEN SetItem(SetItem(edge, "p", AfterSuccess(old_p(edge))), "status", "succeeded")
                  ELSE IF result.status = "failed"
                  THEN SetItem(SetItem(edge, "p", AfterFailed(old_p(edge))), "status", "failed")
                  ELSE SetItem(edge, "status", "in_progress")
        seen == IF result.detected
                THEN SetItem(SetItem(scored, "detect", AfterDetected(old_detect(edge))),
                             "was_detected", TRUE)
                ELSE scored
    IN [edge |-> seen,
        raised |-> IF "p" \notin seen.keys \/ "detect" \notin seen.keys
                   THEN "KeyError" ELSE "none",
        update |-> [technique |-> result.step,
                    old_p |-> old_p(edge), new_p |-> seen.p,
                    old_detect |-> old_detect(edge), new_detect |-> seen.detect,
                    detected |-> result.detected]]

\* for result in results: for edge in g.edges: ... from result r and edge i
\* on.  An exception ends the call; the edges changed until then stay
\* changed.
RECURSIVE UpdateLoop(_, _, _, _, _)
UpdateLoop(es, results, r, i, updates) ==
    IF r > Len(results) THEN [raised |-> "none", edges |-> es, updates |-> updates]
    ELSE IF i > Len(es) THEN UpdateLoop(es, results, r + 1, 1, updates)
    ELSE IF ~Matches(es[i], results[r].step) THEN UpdateLoop(es, results, r, i + 1, updates)
    ELSE LET u == UpdateEdge(es[i], results[r])
             changed == [es EXCEPT ![i] = u.edge]
         IN IF u.raised # "none"
            THEN [raised |-> u.raised, edges |-> changed, updates |-> updates]
            ELSE UpdateLoop(changed, results, r, i + 1, Append(updates, u.update))

\* graph_viz.update_graph_from_execution(g, {"results": results})
update_graph_from_execution(es, results) == UpdateLoop(es, results, 1, 1, <<>>)

\* The body of the inner loop of MockWorkflowOrchestrator._update_graph_from_execution
MockUpdateEdge(edge, result) ==
    LET scored == IF result.status = "success"
                  THEN SetItem(edge, "p", AfterSuccess(Get(edge, "p", MockDefaultP)))
                  ELSE IF result.status = "failed"
                  THEN SetItem(edge, "p", AfterFailed(Get(edge, "p", MockDefaultP)))
                  ELSE edge
    IN IF result.detected
       THEN SetItem(scored, "detect", AfterDetected(Get(scored, "detect", MockDefaultDetect)))
       ELSE scored

\* MockWorkflowOrchestrator._update_graph_from_execution on the same edges
RECURSIVE MockUpdateLoop(_, _, _, _)
MockUpdateLoop(es, results, r, i) ==
    IF r > Len(results) THEN es
    ELSE IF i > Len(es) THEN MockUpdateLoop(es, results, r + 1, 1)
    ELSE IF ~Matches(es[i], results[r].step) THEN MockUpdateLoop(es, results, r, i + 1)
    ELSE MockUpdateLoop([es EXCEPT ![i] = MockUpdateEdge(es[i], results[r])], results, r, i + 1)

_update_graph_from_execution(es, results) == MockUpdateLoop(es, results, 1, 1)

\* Edge dicts with room for the keys an update adds (status and
\* was_detected are not stored yet).  All stored p and detect are in [0, 1].
UpdatePool ==
    << [keys |-> AllKeys, status |-> "", was_detected |-> FALSE,
        src |-> "A", dst |-> "B", technique |-> "t1", p |-> 50, impact |-> 100, detect |-> 20, time |-> 100],
       [keys |-> AllKeys, status |-> "", was_detected |-> FALSE,
        src |-> "B", dst |-> "D", technique |-> "t2", p |-> 80, impact |-> 200, detect |-> 10, time |-> 100],
       [keys |-> AllKeys, status |-> "", was_detected |-> FALSE,
        src |-> "A", dst |-> "D", technique |-> "t2", p |-> 100, impact |-> 300, detect |-> 90, time |-> 100],
       [keys |-> AllKeys \ {"p"}, status |-> "", was_detected |-> FALSE,
        src |-> "A", dst |-> "C", technique |-> "t4", p |-> 0, impact |-> 100, detect |-> 30, time |-> 200],
       [keys |-> AllKeys \ {"detect"}, status |-> "", was_detected |-> FALSE,
        src |-> "A", dst |-> "D", technique |-> "t3", p |-> 0, impact |-> 100, detect |-> 0, time |-> 100] >>

\* An edge without p ahead of a complete one, two edges of one technique,
\* and an edge without detect.
UpdateGraphs ==
    { <<UpdatePool[4], UpdatePool[1]>>, <<UpdatePool[2], UpdatePool[3]>>, <<UpdatePool[5]>> }

\* The status and detected flag of a step result: a link that succeeded and
\* was seen, a launch that failed, a link that failed and was seen, and a
\* link that did not finish in time.
ResultKinds ==
    { [status |-> "success", detected |-> TRUE],
      [status |-> "failed", detected |-> FALSE],
      [status |-> "failure", detected |-> TRUE],
      [status |-> "timeout", detected |-> FALSE] }

ResultLengths == {0, 1, 2}

\* The result lists an execution of this graph's edges can hand over.
ResultLists ==
    LET records == {[step |-> technique_of(edges[i]), status |-> k.status, detected |-> k.detected] :
                       i \in 1..Len(edges), k \in ResultKinds}
    IN UNION {[1..n -> records] : n \in ResultLengths}

InitUpdate ==
    /\ InitFrom([assets : AssetLists, start_nodes : {<<"A">>}, goal_nodes : {<<"D">>},
                 edges : UpdateGraphs], NoCalls)
    /\ args = NoArgs

\* update_graph_from_execution(g, execution_results): args keeps the
\* results handed over, execution_state["graph_updates"] gets its entry
\* when the loops have run through.
UpdateGraphFromExecution ==
    /\ error = "none"
    /\ rounds < MaxRounds
    /\ \E results \in ResultLists :
          \E u \in {update_graph_from_execution(edges, results)} :
             /\ edges' = u.edges
             /\ raised' = u.raised
             /\ execution_state' =
                   IF u.raised = "none"
                   THEN [execution_state EXCEPT !.graph_updates = Append(@, u.updates)]
                   ELSE execution_state
             /\ args' = [NoArgs EXCEPT !.results = results]
    /\ rounds' = rounds + 1
    /\ op' = "update_graph_from_execution"
    /\ UNCHANGED <<cfg, error, assets, start_nodes, goal_nodes, adj,
                   start_iter, arg, nbrs, paths, calls, score, ranked, viz,
                   execution, response>>

NextUpdate == UpdateGraphFromExecution

SpecUpdate == InitUpdate /\ [][NextUpdate]_vars

\* ---------------------------------------------------------------- dashboard (src/src/graph_viz.py)
DashMaxDepth == 5    \* g.enumerate_paths(max_depth=5)
DashTopK == 5        \* rank_paths(paths, top_k=5)

\* The weights rank_paths takes when the caller names none.
DefaultWeights == [wI |-> 10, wD |-> 5, wT |-> 1, wP |-> 10]

\* d[k] = v
DictSet(dict, k, v) == [x \in DOMAIN dict \cup {k} |-> IF x = k THEN v ELSE dict[x]]

\* paths = g.enumerate_paths(max_depth=5); ranked = rank_paths(paths, top_k=5)
\* on the graph loaded from data/env.yaml
Ranking ==
    LET found == EnumerateCall(start_iter, 1, <<>>, DashMaxDepth)
    IN [raised |-> found.raised, paths |-> found.paths,
        ranked |-> IF found.raised # "none" THEN <<>>
                   ELSE rank_paths(found.paths, DefaultWeights.wI, DefaultWeights.wD,
                                   DefaultWeights.wT, DefaultWeights.wP, DashTopK)]

\* The /execute/<path_index> handler: the status code of the answer,
\* execution_state and the edges in data/env.yaml as the request leaves
\* them, and what execute_attack_path returned.  agents says whether
\* discover_agents found any; a result without completed_steps (the
\* operation was not created) raises KeyError before anything is recorded,
\* and an exception of the update is caught after the record was appended
\* and before the file is written.
execute_path(path_index, agents, created, id, outcomes) ==
    LET unchanged == [state |-> execution_state, edges |-> edges, execution |-> NoExecution]
        rk == Ranking
    IN IF rk.raised # "none" THEN [code |-> 500] @@ unchanged
       ELSE IF path_index >= Len(rk.ranked) THEN [code |-> 400] @@ unchanged
       ELSE IF ~agents THEN [code |-> 503] @@ unchanged
       ELSE LET path == rk.ranked[path_index + 1].path
                result == execute_attack_path(path, created, id, outcomes)
                execution_record == [path_index |-> path_index,
                                     operation_id |-> result.operation_id,
                                     completed_steps |-> result.completed_steps,
                                     results |-> result.results,
                                     path |-> path]
                recorded == [execution_state EXCEPT
                                !.execution_history = Append(@, execution_record),
                                !.active_operations = DictSet(@, result.operation_id, execution_record)]
                u == update_graph_from_execution(edges, result.results)
            IN IF result.error # "none"
               THEN [code |-> 500, state |-> execution_state, edges |-> edges, execution |-> result]
               ELSE IF u.raised # "none"
               THEN [code |-> 500, state |-> recorded, edges |-> edges, execution |-> result]
               ELSE [code |-> 200,
                     state |-> [recorded EXCEPT !.graph_updates = Append(@, u.updates)],
                     edges |-> u.edges, execution |-> result]

\* The row build_pyvis_html shows for the path ranked i-th: executed when a
\* record of execution_history carries path_index i - 1, with the status of
\* the last such record.
PathRow(i) ==
    LET history == execution_state.execution_history
        mine == {k \in 1..Len(history) : history[k].path_index = i - 1}
        last == CHOOSE k \in mine : \A j \in mine : j <= k
    IN [path |-> ranked'[i].path,
        path_executed |-> mine # {},
        path_status |-> IF mine = {} THEN "not_executed"
                        ELSE IF history[last].completed_steps = Len(ranked'[i].path)
                        THEN "succeeded" ELSE "failed"]

\* Two parallel edges A -> D close in utility, a two-step path next to a
\* direct edge of the same technique as its second step, and an edge that
\* stores no detect.
DashPool ==
    << [keys |-> AllKeys, status |-> "", was_detected |-> FALSE,
        src |-> "A", dst |-> "D", technique |-> "t2", p |-> 80, impact |-> 200, detect |-> 10, time |-> 100],
       [keys |-> AllKeys, status |-> "", was_detected |-> FALSE,
        src |-> "A", dst |-> "D", technique |-> "t7", p |-> 90, impact |-> 250, detect |-> 90, time |-> 100] >>

DashGraphs ==
    { <<DashPool[1], DashPool[2]>>,
      <<UpdatePool[1], UpdatePool[2], UpdatePool[3]>>,
      <<UpdatePool[5]>> }

\* data/env.yaml, and the graph a request loads from it.
InitDash ==
    /\ InitFrom([assets : AssetLists, start_nodes : {<<"A">>}, goal_nodes : {<<"D">>},
                 edges : DashGraphs], NoCalls)
    /\ args = NoArgs

\* GET /: the ranking of the stored graph and the rows of its path table.
Index ==
    /\ error = "none"
    /\ ranked' = Ranking.ranked
    /\ paths' = Ranking.paths
    /\ viz' = [i \in 1..Len(ranked') |-> PathRow(i)]
    /\ op' = "index"
    /\ UNCHANGED <<cfg, error, assets, start_nodes, goal_nodes, edges, adj,
                   start_iter, arg, nbrs, calls, raised, args, score,
                   execution, execution_state, response, rounds>>

\* The number of steps of the path a request for path_index executes.
StepsOf(path_index) ==
    IF path_index < Len(Ranking.ranked) THEN Len(Ranking.ranked[path_index + 1].path) ELSE 0

\* POST /execute/<path_index>: cfg is data/env.yaml, written when the update
\* has returned; edges is the graph the next request loads from it.
ExecutePath ==
    /\ error = "none"
    /\ rounds < MaxRounds
    /\ \E path_index \in 0..Len(Ranking.ranked), agents \in BOOLEAN, created \in BOOLEAN :
          \E outcomes \in [1..StepsOf(path_index) -> Outcomes] :
             \E answer \in {execute_path(path_index, agents, created, rounds + 1, outcomes)} :
                /\ response' = answer.code
                /\ execution_state' = answer.state
                /\ edges' = answer.edges
                /\ cfg' = [cfg EXCEPT !.edges = answer.edges]
                /\ execution' = answer.execution
                /\ arg' = path_index
    /\ ranked' = Ranking.ranked
    /\ paths' = Ranking.paths
    /\ rounds' = rounds + 1
    /\ op' = "execute_path"
    /\ UNCHANGED <<error, assets, start_nodes, goal_nodes, adj,
                   start_iter, nbrs, calls, raised, args, score, viz>>

NextDash == Index \/ ExecutePath

SpecDash == InitDash /\ [][NextDash]_vars

\* ---------------------------------------------------------------- properties
Min(a, b) == IF a <= b THEN a ELSE b

Returned == op = "enumerate_paths" /\ raised = "none"

Last(w) == w[Len(w)]

\* The nodes a non-empty path passes, its start node first.
Visits(w) == [i \in 1..Len(w) + 1 |-> IF i = 1 THEN Src(w[1]) ELSE Dst(w[i - 1])]

\* How often x occurs in the list s.
Count(s, x) == Cardinality({i \in 1..Len(s) : s[i] = x})

\* w is a non-empty walk from a start node to a goal node that visits no
\* node twice and has no goal node before its final node.
GoalWalk(w) ==
    /\ w # <<>>
    /\ Src(w[1]) \in start_nodes
    /\ \A i \in 1..Len(w) - 1 : Dst(w[i]) = Src(w[i + 1])
    /\ \A i, j \in 1..Len(w) + 1 : i # j => Visits(w)[i] # Visits(w)[j]
    /\ \A i \in 1..Len(w) : Visits(w)[i] \notin goal_nodes
    /\ Dst(Last(w)) \in goal_nodes

\* Every edge sequence of at most max_depth edges that can visit no node
\* twice: such a sequence has fewer edges than there are nodes.
Candidates(max_depth) ==
    SeqUpTo(1..Len(edges), Min(max_depth, Cardinality(Nodes) - 1))

\* C1: enumerate_paths(maxDepth) returns exactly the walks from a start node
\* to a goal node of at most maxDepth edges that visit no node twice and
\* have no goal before their end: every returned path is one, every such
\* walk is returned (once), and the zero-edge walk is returned once for
\* each start node that is a goal, provided maxDepth >= 0.
C1_ExactlyTheGoalWalks ==
    Returned =>
        /\ \A i \in 1..Len(paths) :
              /\ Len(paths[i]) <= arg
              /\ paths[i] # <<>> => GoalWalk(paths[i])
        /\ \A w \in Candidates(arg) : GoalWalk(w) => Count(paths, w) = 1
        /\ Count(paths, <<>>) =
              IF arg >= 0 THEN Cardinality(start_nodes \cap goal_nodes) ELSE 0

\* A walk of exactly max_depth edges has been returned next to a shorter
\* one, and a larger bound would return more.
C1_Witness ==
    /\ Returned
    /\ \E i, j \in 1..Len(paths) : Len(paths[i]) = arg /\ 0 < Len(paths[j]) /\ Len(paths[j]) < arg
    /\ Len(enumerate_paths(arg + 1)) > Len(paths)

\* C2: no returned path has more than maxDepth edges, and every returned
\* path ends at a goal node: the dst of its last edge is a goal, and a
\* zero-edge path stands for a start node that is itself a goal.
C2_BoundedAndEndsAtGoal ==
    Returned =>
        \A i \in 1..Len(paths) :
            /\ Len(paths[i]) <= arg
            /\ paths[i] # <<>> => Dst(Last(paths[i])) \in goal_nodes
            /\ paths[i] = <<>> => start_nodes \cap goal_nodes # {}

\* The bound has cut the search: a path of exactly max_depth edges is
\* returned and the bound max_depth + 1 finds a longer one.
C2_Witness ==
    /\ Returned
    /\ arg >= 1
    /\ \E i \in 1..Len(paths) : Len(paths[i]) = arg
    /\ \E w \in Range(enumerate_paths(arg + 1)) : Len(w) = arg + 1

\* C3: in a returned path no non-goal node occurs twice among the start
\* node and the dst nodes of its edges.
C3_NoNonGoalRepeated ==
    Returned =>
        \A k \in 1..Len(paths) :
            paths[k] # <<>> =>
                \A i, j \in 1..Len(paths[k]) + 1 :
                    (i # j /\ Visits(paths[k])[i] = Visits(paths[k])[j])
                        => Visits(paths[k])[i] \in goal_nodes

\* A path is returned although the graph has an edge from a node of the
\* path back to its start node, and a self-loop on a node of the path.
C3_Witness ==
    /\ Returned
    /\ \E k \in 1..Len(paths) :
          /\ Len(paths[k]) >= 2
          /\ \E e \in 1..Len(edges) :
                /\ Dst(e) = Src(paths[k][1])
                /\ \E i \in 2..Len(paths[k]) : Src(e) = Src(paths[k][i])
          /\ \E e \in 1..Len(edges) :
                /\ Dst(e) = Src(e)
                /\ \E i \in 1..Len(paths[k]) : Src(e) = Src(paths[k][i])

\* C4: a goal node is never expanded: no returned path contains an edge
\* whose src is a goal node.
C4_GoalNeverExpanded ==
    Returned =>
        \A k \in 1..Len(paths) :
            \A i \in 1..Len(paths[k]) : Src(paths[k][i]) \notin goal_nodes

\* A path is returned whose goal node has an outgoing edge to a node the
\* path has not visited, and the bound leaves room to take it.
C4_Witness ==
    /\ Returned
    /\ \E k \in 1..Len(paths) :
          /\ paths[k] # <<>>
          /\ Len(paths[k]) < arg
          /\ \E e \in 1..Len(edges) :
                /\ Src(e) = Dst(Last(paths[k]))
                /\ Dst(e) \notin Range(Visits(paths[k]))

\* The edge at position e of self.edges leads from node a to node b.
Leads(e, a, b) == Src(e) = a /\ Dst(e) = b

\* enumerate_paths(maxDepth >= 2) has returned on a graph with start A, an
\* edge A->B, an edge B->D, and both B and D among the goals.
C5_Scenario ==
    /\ Returned
    /\ arg >= 2
    /\ "A" \in start_nodes
    /\ {"B", "D"} \subseteq goal_nodes
    /\ \E e \in 1..Len(edges) : Leads(e, "A", "B")
    /\ \E e \in 1..Len(edges) : Leads(e, "B", "D")

ReturnsAB == \E k \in 1..Len(paths) : Len(paths[k]) = 1 /\ Leads(paths[k][1], "A", "B")

ReturnsABD ==
    \E k \in 1..Len(paths) :
        Len(paths[k]) = 2 /\ Leads(paths[k][1], "A", "B") /\ Leads(paths[k][2], "B", "D")

\* C5 as stated: in that graph both the path A->B and the path A->B->D are
\* returned.
C5_BothPathsReturned == C5_Scenario => ReturnsAB /\ ReturnsABD

\* C5, amended: in that graph, A not being a goal itself, the path A->B is
\* returned and the path A->B->D is not (B is a goal, the search stops there).
C5_OnlyABReturned == (C5_Scenario /\ "A" \notin goal_nodes) => ReturnsAB /\ ~ReturnsABD

C5_Witness == C5_Scenario /\ "A" \notin goal_nodes /\ ReturnsAB

\* C6: for a fixed graph description and maxDepth the returned list does not
\* depend on the order in which the set of start nodes iterates: every
\* iteration order gives the list that was returned.
C6_SameListForEveryIterationOrder ==
    Returned => \A q \in Perms(start_nodes) : EnumerateFrom(q, 1, <<>>, arg) = paths

\* The first position at which the paths v and w differ, 0 when one is a
\* prefix of the other.
FirstDiff(v, w) ==
    LET D == {i \in 1..Min(Len(v), Len(w)) : v[i] # w[i]}
    IN IF D = {} THEN 0 ELSE CHOOSE i \in D : \A j \in D : i <= j

\* C7: of two paths returned for the same start node, the one whose edge at
\* the first position where they differ was supplied earlier in edges comes
\* earlier in the output (and they do differ at some position of both).
C7_DepthFirstInSupplyOrder ==
    Returned =>
        \A i, j \in 1..Len(paths) :
            (i < j /\ paths[i] # <<>> /\ paths[j] # <<>>
                   /\ Src(paths[i][1]) = Src(paths[j][1]))
                => /\ FirstDiff(paths[i], paths[j]) # 0
                   /\ paths[i][FirstDiff(paths[i], paths[j])]
                        < paths[j][FirstDiff(paths[i], paths[j])]

\* Two paths of one start node that part only at their second edge are
\* returned, from an edge list supplied in the reverse of the pool's order.
C7_Witness ==
    /\ Returned
    /\ Len(edges) >= 3
    /\ edges[1].technique = "t7"
    /\ \E i, j \in 1..Len(paths) :
          /\ i < j
          /\ paths[i] # <<>> /\ paths[j] # <<>>
          /\ Src(paths[i][1]) = Src(paths[j][1])
          /\ FirstDiff(paths[i], paths[j]) = 2

\* The positions of the supplied edges whose src is n, in supply order.
OutEdges(n) == Ascending({i \in 1..Len(cfg.edges) : cfg.edges[i].src = n})

WellFormed == \A i \in 1..Len(cfg.edges) : {"src", "dst"} \subseteq cfg.edges[i].keys

\* C8: construction from a description whose edges all carry src and dst
\* does not fail, whether or not their nodes are known assets; afterwards
\* self.edges is the supplied list and neighbors(n) is, for every node n,
\* the supplied edges with src n in supply order (empty when there is none).
C8_AdjacencyReflectsEdges ==
    WellFormed =>
        /\ error = "none"
        /\ edges = cfg.edges
        /\ \A n \in Nodes : neighbors(n) = OutEdges(n)
        /\ DOMAIN adj = {cfg.edges[i].src : i \in 1..Len(cfg.edges)}

\* An object whose index holds two edges of one src, an edge whose src is
\* no asset, start or goal node, and an edge whose dst is none.
C8_Witness ==
    /\ error = "none"
    /\ \E n \in Nodes : Len(neighbors(n)) >= 2
    /\ \E e \in 1..Len(edges) : Src(e) \notin assets /\ neighbors(Src(e)) # <<>>
    /\ \E e \in 1..Len(edges) : Dst(e) \notin assets

\* C9: neighbors and enumerate_paths leave the graph unchanged: assets,
\* start_nodes, goal_nodes, the edge list with every edge's attributes, and
\* the adjacency index with its key set.
C9_QueriesLeaveGraphUnchanged ==
    [][op' \in {"neighbors", "enumerate_paths"} => graph' = graph]_vars

\* neighbors has been asked about a node with no outgoing edges, after an
\* enumeration that returned a path.
C9_Witness ==
    /\ op = "neighbors"
    /\ arg \notin DOMAIN adj
    /\ nbrs = <<>>
    /\ paths # <<>>

\* C10: each of two interleaved enumerate_paths calls on one object returns
\* the list the call returns when it runs alone.
C10_InterleavedCallsReturnAsAlone ==
    \A t \in Threads :
        Ctl(t).pc = "returned" => Heap(t).paths = enumerate_paths(Ctl(t).max_depth)

\* Both calls are in the middle of their search at the same time, each with
\* a path already recorded and edges on its current path.
C10_Witness ==
    /\ calls # NoCalls
    /\ \A t \in Threads :
          /\ Ctl(t).pc = "running"
          /\ Len(Ctl(t).stack) >= 2
          /\ Heap(t).paths # <<>>

\* C11: constructing a graph from an edge list in which some edge record
\* lacks src or lacks dst fails at construction time, and no graph object
\* results from the call.
C11_MalformedEdgeFailsConstruction ==
    ~WellFormed => error # "none" /\ edges = <<>> /\ adj = <<>>

\* C12: enumerate_paths raises no error and returns an empty list when
\* start_nodes is empty or goal_nodes is empty, and edges whose dst has no
\* adjacency entry or is no listed asset make it raise no error.
C12_NoErrorOnEmptyOrDangling ==
    op = "enumerate_paths" =>
        /\ (start_nodes = {} \/ goal_nodes = {}) => raised = "none" /\ paths = <<>>
        /\ (\A e \in 1..Len(edges) : HasDst(e)) => raised = "none"

\* C20: when a start node is itself a goal and maxDepth >= 0, the zero-edge
\* path is returned for it (once for each such start node) and no returned
\* path begins with one of its outgoing edges.
C20_GoalStartYieldsOnlyEmptyPath ==
    (Returned /\ arg >= 0) =>
        /\ Count(paths, <<>>) = Cardinality(start_nodes \cap goal_nodes)
        /\ \A k \in 1..Len(paths) :
              paths[k] # <<>> => Src(paths[k][1]) \notin start_nodes \cap goal_nodes

\* A start node that is a goal has an outgoing edge to another goal, and a
\* second start node has contributed a path of its own.
C20_Witness ==
    /\ Returned
    /\ arg >= 1
    /\ \E s \in start_nodes \cap goal_nodes :
          \E e \in 1..Len(edges) : Src(e) = s /\ Dst(e) \in goal_nodes \ {s}
    /\ Count(paths, <<>>) = 1
    /\ Len(paths) >= 2

\* C13: every call of enumerate_paths ends (it returns, or raises), whatever
\* the graph (cycles, self-loops, parallel edges, goals on cycles) and
\* whatever integer max_depth, zero and negative included.
C13_EnumerationTerminates ==
    (Ctl(1).pc = "running") ~> (Ctl(1).pc \in {"returned", "raised"})

\* A call with the largest depth has returned on a graph holding the cycle
\* A -> B -> A, the self-loop on B and a goal on that cycle.
C13_Witness ==
    /\ Ctl(1).pc = "returned"
    /\ Ctl(1).max_depth = MaxDepth
    /\ {edges[i].technique : i \in 1..Len(edges)} = {"t1", "t5", "t6"}
    /\ "A" \in start_nodes
    /\ "B" \in goal_nodes

\* A call with a negative depth has returned on a graph with parallel edges.
C13_WitnessNegative ==
    /\ Ctl(1).pc = "returned"
    /\ Ctl(1).max_depth < 0
    /\ {"t2", "t7"} \subseteq {edges[i].technique : i \in 1..Len(edges)}
    /\ "B" \in start_nodes

\* ---------------------------------------------------------------- properties of the metrics
\* The value an edge contributes for attribute k: the stored one, or the
\* documented default p = 0.5, impact = 1.0, detect = 0.3, time = 1.0.
AttrOrDefault(e, k) ==
    IF k \in e.keys THEN e[k]
    ELSE CASE k = "p" -> 50 [] k = "impact" -> 100 [] k = "detect" -> 30 [] k = "time" -> 100

\* clamp(p, 0, 1) of an edge, in hundredths.
Factor(e) ==
    LET x == AttrOrDefault(e, "p")
    IN IF x > 100 THEN 100 ELSE IF x < 0 THEN 0 ELSE x

RECURSIVE Product(_)
Product(path) == IF path = <<>> THEN 1 ELSE Factor(edges[Head(path)]) * Product(Tail(path))

RECURSIVE Sum(_, _)
Sum(path, k) == IF path = <<>> THEN 0 ELSE AttrOrDefault(edges[Head(path)], k) + Sum(Tail(path), k)

RECURSIVE Pow10(_)
Pow10(k) == IF k = 0 THEN 1 ELSE 10 * Pow10(k - 1)

Techniques(path) == [i \in 1..Len(path) |-> edges[path[i]].technique]

\* C14: path_success_probability is the product of the edges' p, each
\* clamped to [0, 1] before multiplying (1.5 counts as 1.0, a negative p as
\* 0, a missing p as 0.5); it is exactly 1.0 for the empty path and lies in
\* [0, 1] for every path.
C14_ProductOfClampedFactors ==
    op = "utility" =>
        /\ score.prob = Product(args.path) * Pow10(9 - 2 * Len(args.path))
        /\ args.path = <<>> => score.prob = 1000000000
        /\ score.prob >= 0 /\ score.prob <= 1000000000

\* The path t3 (p = 1.5), t4 (no p): 1.0 * 0.5.
C14_Witness ==
    /\ op = "utility"
    /\ Techniques(args.path) = <<"t3", "t4">>
    /\ score.prob = 500000000

\* A path through the edge with a negative p has probability 0.
C14_WitnessNegative ==
    /\ op = "utility"
    /\ Techniques(args.path) = <<"t3", "t10">>
    /\ score.prob = 0

\* C15: path_impact, path_detectability and path_time are the unclamped
\* sums of the edges' impact, detect and time, an edge without the attribute
\* counting the default 1.0, 0.3, 1.0; edges_from_attackgraph and
\* update_graph_from_execution read edges with the same defaults p = 0.5,
\* impact = 1.0, detect = 0.3, time = 1.0.
C15_SumsWithDefaults ==
    /\ op = "utility" =>
          /\ score.impact = Sum(args.path, "impact")
          /\ score.detect = Sum(args.path, "detect")
          /\ score.time = Sum(args.path, "time")
    /\ (op = "edges_from_attackgraph" /\ raised = "none") =>
          /\ Len(viz) = Len(edges)
          /\ \A i \in 1..Len(viz) :
                \A k \in {"p", "impact", "detect", "time"} :
                   viz[i][k] = AttrOrDefault(edges[viz[i].edge], k)
    /\ \A i \in 1..Len(edges) :
          /\ old_p(edges[i]) = AttrOrDefault(edges[i], "p")
          /\ old_detect(edges[i]) = AttrOrDefault(edges[i], "detect")

\* The path t3 (no detect), t4 (no impact, no time), t10 (impact -0.5,
\* detect 1.5, no time): sums outside [0, 1], defaults counted.
C15_Witness ==
    /\ op = "utility"
    /\ Techniques(args.path) = <<"t3", "t4", "t10">>
    /\ score.impact = 150
    /\ score.detect = 210
    /\ score.time = 400

\* edges_from_attackgraph has listed an edge that stores no p, impact or time.
C15_WitnessViz ==
    /\ op = "edges_from_attackgraph"
    /\ \E i \in 1..Len(viz) :
          /\ viz[i].technique = "t4"
          /\ viz[i].p = 50 /\ viz[i].impact = 100 /\ viz[i].time = 100

\* C16: utility is wI*Impact + wP*ln(max(P, 1e-9)) - wD*Detectability -
\* wT*Time; the argument of the logarithm lies in [1e-9, 1] for every path,
\* one with a zero-probability edge included, so the call never fails, and
\* on such a path the logarithm is ln(1e-9) = -20.72.
C16_UtilityFormulaAndFloor ==
    op = "utility" =>
        /\ raised = "none"
        /\ score.P >= 1 /\ score.P <= 1000000000
        /\ score.P = (IF score.prob > 1 THEN score.prob ELSE 1)
        /\ score.utility = args.wI * score.impact * 10 + args.wP * log(score.P).value
                           - args.wD * score.detect * 10 - args.wT * score.time * 10
        /\ score.prob = 0 => log(score.P).value \in (0 - 20730)..(0 - 20715)
        /\ score.prob = 1000000000 => log(score.P).value = 0

\* The path t1, t5 (p = 0) scored with the default weights:
\* 2.0 + ln(1e-9) - 0.5*0.5 - 0.1*2.0, below -19.
C16_Witness ==
    /\ op = "utility"
    /\ raised = "none"
    /\ Techniques(args.path) = <<"t1", "t5">>
    /\ score.prob = 0
    /\ args.wP = 10
    /\ score.utility < 0 - 190000

\* ---------------------------------------------------------------- properties of the ranking
Ranked == op = "main" /\ raised = "none"

\* The first position of path w in the list enumerate_paths returned.
Position(w) == CHOOSE k \in 1..Len(paths) : paths[k] = w /\ \A j \in 1..(k - 1) : paths[j] # w

RankedPaths == [i \in 1..Len(ranked) |-> ranked[i].path]

\* C17: the records rank_paths returns are in order of non-increasing
\* utility, and records of equal utility are in the order their paths have
\* in the list enumerate_paths returned.
C17_SortedAndStable ==
    Ranked =>
        \A i, j \in 1..Len(ranked) :
            i < j =>
                /\ ranked[i].utility >= ranked[j].utility
                /\ ranked[i].utility = ranked[j].utility =>
                      Position(ranked[i].path) <= Position(ranked[j].path)

\* Four paths, found as t1 t2, t1 t7, t2, t7 or so, ranked by time alone:
\* the two one-edge paths tie and come first, the two-edge paths tie after
\* them, each pair in its order of enumeration.
C17_Witness ==
    /\ Ranked
    /\ Len(ranked) = 4
    /\ Len(paths[1]) = 2 /\ Len(paths[3]) = 1
    /\ ranked[1].utility = ranked[2].utility
    /\ ranked[2].utility > ranked[3].utility
    /\ ranked[3].utility = ranked[4].utility
    /\ ranked[1].path = paths[3] /\ ranked[2].path = paths[4]
    /\ ranked[3].path = paths[1] /\ ranked[4].path = paths[2]

\* C18: of n paths rank_paths returns min(top_k, n) records when top_k > 0
\* and all n, each path once, when top_k <= 0; no path gives no record.
C18_TopKRecords ==
    Ranked =>
        /\ args.top_k > 0 => Len(ranked) = Min(args.top_k, Len(paths))
        /\ args.top_k <= 0 =>
              /\ Len(ranked) = Len(paths)
              /\ \A k \in 1..Len(paths) : Count(RankedPaths, paths[k]) = Count(paths, paths[k])
        /\ paths = <<>> => ranked = <<>>

\* Four paths cut to two.
C18_Witness ==
    /\ Ranked
    /\ args.top_k = 2
    /\ Len(paths) = 4
    /\ Len(ranked) = 2

\* Four paths, all returned for a negative top_k.
C18_WitnessAll ==
    /\ Ranked
    /\ args.top_k < 0
    /\ Len(paths) = 4
    /\ Len(ranked) = 4

\* No path, no record.
C18_WitnessEmpty ==
    /\ Ranked
    /\ start_nodes # {}
    /\ Len(edges) = MaxPlanEdges
    /\ paths = <<>>
    /\ ranked = <<>>

\* C19: every record carries the edge sequence of an input path, no input
\* path gives more records than it has positions in the input, and prob,
\* impact, detect, time and utility are the metric functions of that edge
\* sequence under the weights of the call.
C19_RecordsCarryPathAndMetrics ==
    Ranked =>
        \A i \in 1..Len(ranked) :
            LET r == ranked[i]
            IN /\ \E k \in 1..Len(paths) : r.path = paths[k]
               /\ Count(RankedPaths, r.path) <= Count(paths, r.path)
               /\ r.prob = path_success_probability(r.path)
               /\ r.impact = path_impact(r.path)
               /\ r.detect = path_detectability(r.path)
               /\ r.time = path_time(r.path)
               /\ r.utility = utility(r.path, args.wI, args.wD, args.wT, args.wP).value

\* The default weights put t1 t7 first: P = 0.45, I = 4.0, D = 1.1, T = 2.0
\* and U = 4.0 + ln 0.45 - 0.55 - 0.2 = 2.451.
C19_Witness ==
    /\ Ranked
    /\ Len(ranked) >= 2
    /\ Techniques(ranked[1].path) = <<"t1", "t7">>
    /\ ranked[1].prob = 450000000
    /\ ranked[1].impact = 400 /\ ranked[1].detect = 110 /\ ranked[1].time = 200
    /\ ranked[1].utility = 24510

\* ---------------------------------------------------------------- properties of the search's bookkeeping
\* C29: the list enumerate_paths returns holds no two entries with the same
\* sequence of edges (edges taken by position in the supplied list).
C29_NoTwoEqualEntries ==
    Returned => \A i, j \in 1..Len(paths) : i # j => paths[i] # paths[j]

\* The edge the loop of frame k of the stack is at.
TakenBy(c, k) == neighbors(c.stack[k].current)[c.stack[k].i]

\* path and seen as the frames below the top of the stack determine them:
\* the edges their loops are at, and the nodes of all frames.
PathOf(c) == [k \in 1..(Len(c.stack) - 1) |-> TakenBy(c, k)]
SeenOf(c) == {c.stack[k].current : k \in 1..Len(c.stack)}

IsPrefix(s, t) == Len(s) <= Len(t) /\ \A k \in 1..Len(s) : t[k] = s[k]

\* C30: on entry to _dfs (and all through the call) seen is the start node
\* plus the dst nodes of the edges of path; the frames of the callers, which
\* determine path and seen, are the same when a call returns as when it was
\* made; and an entry of the result list never changes once appended.
C30_SeenPathAndResultsKept ==
    [][ (Ctl(1).pc = "running" /\ Ctl(1).pc' # "raised") =>
          /\ Ctl(1).stack' # <<>> =>
                /\ Heap(1).path' = PathOf(Ctl(1)')
                /\ Heap(1).seen' = SeenOf(Ctl(1)')
                /\ Heap(1).seen' = {Ctl(1).stack'[1].current}
                                     \cup {Dst(Heap(1).path'[k]) : k \in 1..Len(Heap(1).path')}
          /\ (Ctl(1).stack # <<>> /\ Len(Ctl(1).stack') >= Len(Ctl(1).stack)) =>
                \A k \in 1..(Len(Ctl(1).stack) - 1) : Ctl(1).stack'[k] = Ctl(1).stack[k]
          /\ (Ctl(1).stack # <<>> /\ Len(Ctl(1).stack') = Len(Ctl(1).stack) - 1
                /\ Ctl(1).stack' # <<>>) =>
                /\ Heap(1).path' = ButLast(Heap(1).path)
                /\ Ctl(1).stack[Len(Ctl(1).stack)].current \notin Heap(1).seen'
          /\ IsPrefix(Heap(1).paths, Heap(1).paths')
      ]_vars

\* A third nested call is being entered while the result list already holds
\* a path.
C30_Witness ==
    /\ Ctl(1).pc = "running"
    /\ Len(Ctl(1).stack) = 3
    /\ Ctl(1).stack[3].i = 0
    /\ Len(Heap(1).path) = 2
    /\ Cardinality(Heap(1).seen) = 3
    /\ Heap(1).paths # <<>>

\* ---------------------------------------------------------------- properties of path execution
Executed == op = "execute_attack_path" /\ execution.error = "none"

\* C21: the steps are taken up in path order, one result each; after a
\* result that is neither success nor skipped no later step is taken up;
\* results[i].step is the technique of the i-th edge of the path ("Unknown"
\* for an edge that stores none), and completed_steps = len(results) <=
\* total_steps = len(path).
C21_StepsInOrderUntilFailure ==
    Executed =>
        LET results == execution.results
            n == Len(results)
        IN /\ execution.attempted = [i \in 1..n |-> i]
           /\ n <= Len(args.path)
           /\ execution.completed_steps = n
           /\ execution.total_steps = Len(args.path)
           /\ \A i \in 1..n :
                 /\ results[i].step = (IF "technique" \in edges[args.path[i]].keys
                                       THEN edges[args.path[i]].technique ELSE "Unknown")
                 /\ i < n => results[i].status \in {"success", "skipped"}
           /\ n < Len(args.path) => results[n].status \notin {"success", "skipped"}

\* A three-step path: the first step skipped, the second succeeded, the
\* third not, though the server would have run it.
C21_Witness ==
    /\ Executed
    /\ Len(args.path) = 3
    /\ Len(execution.results) = 2
    /\ execution.results[1].status = "skipped"
    /\ execution.results[2].status = "failure"
    /\ args.outcomes[3].status = "success" /\ args.outcomes[3].link

\* ---------------------------------------------------------------- properties of the execution updates
Updated == op = "update_graph_from_execution"

\* The results of the call that made the step.
Handed == args'.results

\* p after the results r.. by the stated rule, for an edge of technique t
RECURSIVE RuleP(_, _, _, _)
RuleP(p, t, results, r) ==
    IF r > Len(results) THEN p
    ELSE RuleP(IF results[r].step # t THEN p
               ELSE IF results[r].status = "success"
               THEN (IF (p * 12) \div 10 > 100 THEN 100 ELSE (p * 12) \div 10)
               ELSE IF results[r].status = "failed" THEN (p * 5) \div 10
               ELSE p,
               t, results, r + 1)

\* detect after the results r.. by the stated rule
RECURSIVE RuleDetect(_, _, _, _)
RuleDetect(d, t, results, r) ==
    IF r > Len(results) THEN d
    ELSE RuleDetect(IF results[r].step = t /\ results[r].detected
                    THEN (IF (d * 13) \div 10 > 100 THEN 100 ELSE (d * 13) \div 10)
                    ELSE d,
                    t, results, r + 1)

\* p and detect of every edge follow the rule, and are what the mock
\* orchestrator's update makes of the same edges and results.
FollowsRule ==
    \A i \in 1..Len(edges) :
       LET mock == _update_graph_from_execution(edges, Handed)[i]
       IN /\ old_p(edges'[i]) = RuleP(old_p(edges[i]), edges[i].technique, Handed, 1)
          /\ old_detect(edges'[i]) = RuleDetect(old_detect(edges[i]), edges[i].technique, Handed, 1)
          /\ old_p(edges'[i]) = old_p(mock)
          /\ old_detect(edges'[i]) = old_detect(mock)

\* C22: for each step result every edge of the step's technique gets p =
\* min(1, 1.2 p) on success, max(0, 0.5 p) on failed, the same p on any
\* other status, and detect = min(1, 1.3 detect) when detected; the graph_viz
\* and the mock orchestrator's update leave the same p and detect on every
\* edge for every result sequence.
C22_UpdateRuleAndAgreement == [][Updated' => FollowsRule]_vars

\* C23: from edges with p and detect in [0, 1], every edge keeps p and
\* detect in [0, 1] after any sequence of updates with any statuses and
\* detected flags.
C23_ScoresStayInUnitInterval ==
    \A i \in 1..Len(edges) :
       /\ "p" \in edges[i].keys => edges[i].p \in 0..100
       /\ "detect" \in edges[i].keys => edges[i].detect \in 0..100

\* Two rounds after which the caps hold a p and a detect at 1 that were
\* below it in the description.
C23_Witness ==
    /\ Updated
    /\ rounds = MaxRounds
    /\ \E i \in 1..Len(edges) : cfg.edges[i].p < 100 /\ edges[i].p = 100
    /\ \E i \in 1..Len(edges) : cfg.edges[i].detect < 100 /\ edges[i].detect = 100

FrameKeys == {"src", "dst", "technique", "impact", "time"}

\* C24: an update changes no edge's src, dst, technique, impact or time,
\* nor the length or order of the edge list, nor the adjacency index, and
\* enumerate_paths returns the same edge sequences after it as before.
C24_UpdateKeepsStructure ==
    [][Updated' =>
          /\ Len(edges') = Len(edges)
          /\ \A i \in 1..Len(edges) : \A k \in FrameKeys :
                /\ k \in edges'[i].keys <=> k \in edges[i].keys
                /\ edges'[i][k] = edges[i][k]
          /\ adj' = adj
          /\ enumerate_paths(MaxDepth)' = enumerate_paths(MaxDepth)
      ]_vars

\* A second round that changed p and detect of both edges of a graph that
\* has a path.
C24_Witness ==
    /\ Updated
    /\ rounds = MaxRounds
    /\ raised = "none"
    /\ Len(edges) = 2
    /\ \A i \in 1..Len(edges) :
          edges[i].p # cfg.edges[i].p /\ edges[i].detect # cfg.edges[i].detect
    /\ enumerate_paths(MaxDepth) # <<>>

\* The statuses of a step that was attempted and did not succeed.
NotSucceeded == {"failed", "failure", "timeout"}

\* C25: an update whose results for an edge's technique are all of steps
\* attempted without success lowers the edge's p when p > 0, and an edge
\* is marked in_progress only for a step that has not finished.
C25_FailedStepsLowerP ==
    [][Updated' /\ raised' = "none" =>
          \A i \in 1..Len(edges) :
             LET mine == {r \in 1..Len(Handed) : Matches(edges[i], Handed[r].step)}
             IN mine # {} =>
                   /\ (old_p(edges[i]) > 0 /\ \A r \in mine : Handed[r].status \in NotSucceeded)
                         => old_p(edges'[i]) < old_p(edges[i])
                   /\ edges'[i].status = "in_progress"
                         => \E r \in mine : Handed[r].status \notin {"success", "failed", "failure"}
      ]_vars

\* C26: the update completes without raising for every edge and step
\* result, an edge without p or detect and a status other than success and
\* failed or detected = false included, and records its entry.
C26_UpdateCompletes ==
    Updated => raised = "none" /\ Len(execution_state.graph_updates) = rounds

\* ---------------------------------------------------------------- properties of the dashboard
Answered == op = "execute_path"

\* C27: a request the handler answers with an error (index out of range,
\* no agents, operation not created, any exception during execution or
\* update) leaves execution_state, the edge attributes and the stored
\* graph file as they were.
C27_ErrorLeavesStateUnchanged ==
    [][Answered' /\ response' # 200 =>
          /\ execution_state' = execution_state
          /\ edges' = edges
          /\ cfg' = cfg
      ]_vars

\* C28: for every record of execution_history, the path at position
\* record.path_index of a fresh ranking of the current graph is the path
\* stored in the record, so a row shown as executed is a path that was
\* executed.
C28_RecordsNameTheirPath ==
    \A k \in 1..Len(execution_state.execution_history) :
       LET record == execution_state.execution_history[k]
       IN /\ record.path_index < Len(Ranking.ranked)
          /\ Ranking.ranked[record.path_index + 1].path = record.path
====
